---- MODULE Spec2Model ----
(***************************************************************************)
(* Model of export.py: the Meshcapade avatar export client.                *)
(*   try_get_download_url  one POST to the export endpoint and the         *)
(*                         interpretation of its JSON:API response         *)
(*   export_avatar         the poll loop with its 5 s sleep and 600 s       *)
(*                         deadline                                         *)
(*   download_file         the streaming download into the output file     *)
(*   main                  the orchestration and the top-level handler     *)
(* Time is counted in whole seconds; the remote service, the clock and the *)
(* file system are the environment.                                        *)
(***************************************************************************)
EXTENDS Integers, Sequences, FiniteSets, TLC

VARIABLES
    pc,            \* position of the single thread of control
    token,         \* os.getenv("MESHCAPADE_API_TOKEN")
    clock,         \* time.time(), in seconds
    latency,       \* seconds one export request takes in this run
    jobReady,      \* the remote export job has finished and has a URL
    jobUrl,        \* the URL the finished job serves
    readyAfter,    \* export requests answered before the job finished
    start_time,    \* export_avatar: start_time
    download_url,  \* export_avatar: download_url
    elapsed,       \* export_avatar: elapsed, as last computed
    err,           \* the exception in flight or caught
    nPosts,        \* export POST requests sent
    nSleeps,       \* calls of time.sleep
    sleepArgs,     \* the arguments time.sleep was called with
    nProgress,     \* "Export processing..." messages printed
    firstUrl,      \* first truthy value try_get_download_url returned
    postsAtUrl,    \* nPosts when firstUrl was returned
    onlyReadyNoUrl, \* every answer so far was READY without a usable URL
    file,          \* the output file <asset_id>.glb on disk
    oldFile,       \* what was at that path before the run
    handleOpen,    \* download_file holds an open handle on the file
    nOpens,        \* calls of open(output_file, "wb")
    nGets,         \* download GET requests sent
    stream,        \* chunks iter_content has still to yield
    payload,       \* all chunks of the download response body
    getStatus,     \* how the download GET ended
    getUrl,        \* the URL the download GET was sent to
    stderr,        \* lines printed to sys.stderr
    success,       \* the "Success!" line was printed
    exitCode,      \* process exit status
    response,      \* requester check: the response under interpretation
    result         \* requester check: what try_get_download_url did

vars == << pc, token, clock, latency, jobReady, jobUrl, readyAfter, start_time,
           download_url, elapsed, err, nPosts, nSleeps, sleepArgs, nProgress,
           firstUrl, postsAtUrl, onlyReadyNoUrl, file, oldFile, handleOpen,
           nOpens, nGets, stream, payload, getStatus, getUrl, stderr, success,
           exitCode, response, result >>

(***************************************************************************)
(* Bounds of the environment.                                              *)
(***************************************************************************)
MaxLatency == 1   \* an export request takes 0..MaxLatency seconds
MaxChunks == 2    \* a download body has at most this many chunks

(***************************************************************************)
(* Program constants.                                                      *)
(***************************************************************************)
ASSET_STATE_READY == "READY"
ASSET_STATE_ERROR == "ERROR"
poll_interval == 5
max_wait == 600
NoTimeout == 0 - 1        \* timeout=None, the default of requests
post_timeout == NoTimeout \* line 54: requests.post is given no timeout
get_timeout == 60         \* line 131: requests.get(..., timeout=60)

(***************************************************************************)
(* Python values.  None and a missing dict key are marker strings, so that *)
(* every JSON member has one type.                                         *)
(***************************************************************************)
None == "<None>"
Absent == "<absent>"
Truthy(v) == v \notin {None, Absent, ""}

Tokens == {None, "", "secret"}
URLs == {"https://example/x.glb", "https://example/y.glb"}
NoExit == 0 - 1

(***************************************************************************)
(* The response to the export POST.                                        *)
(*   status      "ok" (2xx with a JSON object), "http_error" (4xx/5xx),    *)
(*               "conn_error" (no response), "not_json" (2xx, body is not  *)
(*               JSON)                                                     *)
(*   data        the "data" member: Absent, None (null) or "dict"          *)
(*   attributes  data["attributes"]: Absent, None or "dict"                *)
(*   state       attributes["state"]: Absent or a string                   *)
(*   url         attributes["url"]: Absent, None or "dict"                 *)
(*   path        url["path"]: Absent or a string                           *)
(*   other       attributes has further members (id, created, ...)         *)
(***************************************************************************)
States == {Absent, ASSET_STATE_READY, ASSET_STATE_ERROR, "PROCESSING"}

Body(d, a, s, u, p, o) ==
    [status |-> "ok", data |-> d, attributes |-> a, state |-> s, url |-> u,
     path |-> p, other |-> o]

NoBody == [status |-> "none", data |-> Absent, attributes |-> Absent,
           state |-> Absent, url |-> Absent, path |-> Absent, other |-> FALSE]

Failure(kind) == [NoBody EXCEPT !.status = kind]

JsonBodies ==
    {Body(Absent, Absent, Absent, Absent, Absent, FALSE),
     Body(None, Absent, Absent, Absent, Absent, FALSE),
     Body("dict", Absent, Absent, Absent, Absent, FALSE),
     Body("dict", None, Absent, Absent, Absent, FALSE)}
    \cup {Body("dict", "dict", s, u, Absent, o) :
            s \in States, u \in {Absent, None}, o \in BOOLEAN}
    \cup {Body("dict", "dict", s, "dict", p, o) :
            s \in States, p \in {Absent, ""} \cup URLs, o \in BOOLEAN}

Responses ==
    JsonBodies \cup {Failure("http_error"), Failure("conn_error"), Failure("not_json")}

\* attributes is a dict without members
EmptyAttributes(b) ==
    b.attributes = "dict" /\ b.state = Absent /\ b.url = Absent /\ ~b.other

\* the response the finished job gives: READY with a populated url.path
IsReadyBody(b) ==
    /\ b.status = "ok" /\ b.data = "dict" /\ b.attributes = "dict"
    /\ b.state = ASSET_STATE_READY /\ b.url = "dict" /\ Truthy(b.path)

\* state READY without a usable URL: url missing, null, empty, or its path
\* missing or empty
IsReadyNoUrl(b) ==
    /\ b.status = "ok" /\ b.data = "dict" /\ b.attributes = "dict"
    /\ b.state = ASSET_STATE_READY /\ ~(b.url = "dict" /\ Truthy(b.path))

(***************************************************************************)
(* Exceptions and function outcomes.                                       *)
(***************************************************************************)
Exc(type, msg, body, cause) ==
    [type |-> type, msg |-> msg, body |-> body, cause |-> cause]

NoErr == Exc("none", "none", NoBody, "none")

Return(v) == [kind |-> "return", value |-> v, error |-> NoErr]
Raise(e) == [kind |-> "raise", value |-> None, error |-> e]
NoResult == [kind |-> "none", value |-> None, error |-> NoErr]

(***************************************************************************)
(* try_get_download_url, lines 54-76, on the response the POST got.        *)
(***************************************************************************)
\* variant: the URL is returned whenever there is one, whatever the state,
\* and the job-failure error does not carry the body
InterpretAttributesUrlFirst(b) ==
    LET state == IF b.state = Absent THEN None ELSE b.state
        path == IF b.url = "dict" /\ b.path # Absent THEN b.path ELSE None
    IN  IF Truthy(path) THEN Return(path)
        ELSE IF state = ASSET_STATE_ERROR
             THEN Raise(Exc("RuntimeError", "Export finished with ERROR state",
                            NoBody, "none"))
             ELSE Return(None)

\* variant: READY returns the url object's representation, not its path
InterpretAttributesWholeUrl(b) ==
    LET state == IF b.state = Absent THEN None ELSE b.state
    IN  IF state = ASSET_STATE_READY
        THEN Return(IF b.url = "dict" THEN "{'path': ...}" ELSE None)
        ELSE IF state = ASSET_STATE_ERROR
             THEN Raise(Exc("RuntimeError", "Export finished with ERROR state",
                            b, "none"))
             ELSE Return(None)

\* variant: READY without a usable URL is a malformed response
InterpretAttributesReadyNeedsUrl(b) ==
    LET state == IF b.state = Absent THEN None ELSE b.state
        path == IF b.url = "dict" /\ b.path # Absent THEN b.path ELSE None
    IN  IF state = ASSET_STATE_READY
        THEN IF Truthy(path) THEN Return(path)
             ELSE Raise(Exc("ValueError", "READY without a URL", b, "none"))
        ELSE IF state = ASSET_STATE_ERROR
             THEN Raise(Exc("RuntimeError", "Export finished with ERROR state",
                            b, "none"))
             ELSE Return(None)

\* lines 66-76: state, url_obj, download_url and the three-way branch
InterpretAttributes(b) ==
    LET state == IF b.state = Absent THEN None ELSE b.state
        \* url_obj = attributes.get("url", {}); url_obj.get("path") is None
        \* without a path member, and an empty or null url_obj gives None
        path == IF b.url = "dict" /\ b.path # Absent THEN b.path ELSE None
    IN  IF state = ASSET_STATE_READY THEN Return(path)
        ELSE IF state = ASSET_STATE_ERROR
             THEN Raise(Exc("RuntimeError", "Export finished with ERROR state",
                            b, "none"))
             ELSE Return(None)

\* variant: no check for missing or empty attributes
TryGetNoEmptyCheck(b) ==
    IF b.status = "conn_error" THEN Raise(Exc("ConnectionError", "none", NoBody, "none"))
    ELSE IF b.status = "http_error" THEN Raise(Exc("HTTPError", "none", NoBody, "none"))
    ELSE IF b.status = "not_json" THEN Raise(Exc("JSONDecodeError", "none", NoBody, "none"))
    ELSE IF b.data = None \/ b.attributes = None
         THEN Raise(Exc("AttributeError", "none", NoBody, "none"))
    ELSE InterpretAttributes(b)

try_get_download_url(b) ==
    IF b.status = "conn_error" THEN Raise(Exc("ConnectionError", "none", NoBody, "none"))
    ELSE IF b.status = "http_error" THEN Raise(Exc("HTTPError", "none", NoBody, "none"))
    ELSE IF b.status = "not_json" THEN Raise(Exc("JSONDecodeError", "none", NoBody, "none"))
    \* data = response_json.get("data", {}); None.get raises
    ELSE IF b.data = None THEN Raise(Exc("AttributeError", "none", NoBody, "none"))
    \* attributes = data.get("attributes", {}); if not attributes: raise
    ELSE IF b.data = Absent \/ b.attributes \in {Absent, None} \/ EmptyAttributes(b)
         THEN Raise(Exc("ValueError", "Export response came back empty", b, "none"))
    ELSE InterpretAttributes(b)

(***************************************************************************)
(* The environment: the file system, the download body, the remote job.    *)
(***************************************************************************)
NoFile == [exists |-> FALSE, content |-> << >>]
OnDisk(bytes) == [exists |-> TRUE, content |-> bytes]
OldFiles == {NoFile, OnDisk(<<9, 9, 9>>)}

Chunks == {<<1>>, <<2, 3>>}
Payloads == UNION {[1..n -> Chunks] : n \in 0..MaxChunks}

Polling == {"poll_request", "poll_check", "poll_sleep"}

\* what the export endpoint may answer: a fault at any time; the ready body
\* with the job's URL once the job has finished, any other body before
ServerResponses ==
    {b \in Responses : b.status # "ok"}
    \cup (IF jobReady
          THEN {b \in JsonBodies : IsReadyBody(b) /\ b.path = jobUrl}
          ELSE {b \in JsonBodies : ~IsReadyBody(b)})

Init ==
    /\ pc = "main"
    /\ token \in Tokens
    /\ clock = 0
    /\ latency \in 0..MaxLatency
    /\ jobReady = FALSE
    /\ jobUrl = None
    /\ readyAfter = 0
    /\ start_time = 0
    /\ download_url = None
    /\ elapsed = 0
    /\ err = NoErr
    /\ nPosts = 0
    /\ nSleeps = 0
    /\ sleepArgs = {}
    /\ nProgress = 0
    /\ firstUrl = None
    /\ postsAtUrl = 0
    /\ onlyReadyNoUrl = TRUE
    /\ oldFile \in OldFiles
    /\ file = oldFile
    /\ handleOpen = FALSE
    /\ nOpens = 0
    /\ nGets = 0
    /\ stream = << >>
    /\ payload = << >>
    /\ getStatus = "none"
    /\ getUrl = None
    /\ stderr = << >>
    /\ success = FALSE
    /\ exitCode = NoExit
    /\ response = NoBody
    /\ result = NoResult

pollVars == << start_time, download_url, elapsed, nPosts, nSleeps, sleepArgs,
               nProgress, firstUrl, postsAtUrl, onlyReadyNoUrl >>
fileVars == << file, handleOpen, nOpens, nGets, stream, payload, getStatus,
               getUrl >>
envVars == << token, latency, oldFile, response, result >>
jobVars == << jobReady, jobUrl, readyAfter >>
outVars == << stderr, success, exitCode >>

(***************************************************************************)
(* The remote export job finishes, at any moment of the polling.           *)
(***************************************************************************)
JobCompletes ==
    /\ pc \in Polling
    /\ ~jobReady
    /\ jobReady' = TRUE
    /\ jobUrl' \in URLs
    /\ readyAfter' = nPosts
    /\ UNCHANGED << pc, clock, err, pollVars, fileVars, envVars, outVars >>

\* variant: the token is not checked
MainStartNoTokenCheck ==
    /\ pc = "main"
    /\ start_time' = clock
    /\ download_url' = None
    /\ pc' = "poll_request"
    /\ UNCHANGED << clock, err, elapsed, nPosts, nSleeps, sleepArgs, nProgress,
                    firstUrl, postsAtUrl, onlyReadyNoUrl, fileVars, envVars,
                    jobVars, outVars >>

(***************************************************************************)
(* main, lines 159-168, and the start of export_avatar, lines 90-99.       *)
(***************************************************************************)
MainStart ==
    /\ pc = "main"
    /\ IF ~Truthy(token)
       THEN /\ err' = Exc("ValueError", "MESHCAPADE_API_TOKEN is not set",
                          NoBody, "none")
            /\ pc' = "main_except"
            /\ UNCHANGED << start_time, download_url >>
       ELSE /\ start_time' = clock
            /\ download_url' = None
            /\ pc' = "poll_request"
            /\ err' = err
    /\ UNCHANGED << clock, elapsed, nPosts, nSleeps, sleepArgs, nProgress, firstUrl,
                    postsAtUrl, onlyReadyNoUrl, fileVars, envVars, jobVars, outVars >>

\* variant: no break on a URL; the loop ends at its test, after the sleep
PollRequestNoBreak ==
    /\ pc = "poll_request"
    /\ \E b \in ServerResponses :
         LET r == try_get_download_url(b) IN
         /\ nPosts' = nPosts + 1
         /\ clock' = clock + latency
         /\ onlyReadyNoUrl' = (onlyReadyNoUrl /\ IsReadyNoUrl(b))
         /\ IF r.kind = "raise"
            THEN /\ err' = r.error
                 /\ pc' = "main_except"
                 /\ UNCHANGED << download_url, firstUrl, postsAtUrl >>
            ELSE /\ download_url' = r.value
                 /\ err' = err
                 /\ pc' = "poll_check"
                 /\ IF Truthy(r.value) /\ firstUrl = None
                    THEN firstUrl' = r.value /\ postsAtUrl' = nPosts + 1
                    ELSE UNCHANGED << firstUrl, postsAtUrl >>
    /\ UNCHANGED << start_time, elapsed, nSleeps, sleepArgs, nProgress, fileVars,
                    envVars, jobVars, outVars >>

\* variant: an error of the request is noted and the loop polls on
PollRequestRetriesOnError ==
    /\ pc = "poll_request"
    /\ \E b \in ServerResponses :
         LET r == try_get_download_url(b) IN
         /\ nPosts' = nPosts + 1
         /\ clock' = clock + latency
         /\ onlyReadyNoUrl' = (onlyReadyNoUrl /\ IsReadyNoUrl(b))
         /\ IF r.kind = "raise"
            THEN /\ err' = r.error
                 /\ pc' = "poll_check"
                 /\ UNCHANGED << download_url, firstUrl, postsAtUrl >>
            ELSE /\ download_url' = r.value
                 /\ err' = err
                 /\ pc' = IF Truthy(r.value) THEN "export_return" ELSE "poll_check"
                 /\ IF Truthy(r.value) /\ firstUrl = None
                    THEN firstUrl' = r.value /\ postsAtUrl' = nPosts + 1
                    ELSE UNCHANGED << firstUrl, postsAtUrl >>
    /\ UNCHANGED << start_time, elapsed, nSleeps, sleepArgs, nProgress, fileVars,
                    envVars, jobVars, outVars >>

\* variant: the loop asks once more after the first URL
PollRequestConfirmsTwice ==
    /\ pc = "poll_request"
    /\ \E b \in ServerResponses :
         LET r == try_get_download_url(b) IN
         /\ nPosts' = nPosts + 1
         /\ clock' = clock + latency
         /\ onlyReadyNoUrl' = (onlyReadyNoUrl /\ IsReadyNoUrl(b))
         /\ IF r.kind = "raise"
            THEN /\ err' = r.error
                 /\ pc' = "main_except"
                 /\ UNCHANGED << download_url, firstUrl, postsAtUrl >>
            ELSE /\ download_url' = r.value
                 /\ err' = err
                 /\ pc' = IF ~Truthy(r.value) THEN "poll_check"
                        ELSE IF firstUrl = None THEN "poll_request"
                        ELSE "export_return"
                 /\ IF Truthy(r.value) /\ firstUrl = None
                    THEN firstUrl' = r.value /\ postsAtUrl' = nPosts + 1
                    ELSE UNCHANGED << firstUrl, postsAtUrl >>
    /\ UNCHANGED << start_time, elapsed, nSleeps, sleepArgs, nProgress, fileVars,
                    envVars, jobVars, outVars >>

(***************************************************************************)
(* export_avatar, lines 101-105: one call of try_get_download_url.         *)
(***************************************************************************)
PollRequest ==
    /\ pc = "poll_request"
    /\ \E b \in ServerResponses :
         LET r == try_get_download_url(b) IN
         /\ nPosts' = nPosts + 1
         /\ clock' = clock + latency
         /\ onlyReadyNoUrl' = (onlyReadyNoUrl /\ IsReadyNoUrl(b))
         /\ IF r.kind = "raise"
            THEN /\ err' = r.error
                 /\ pc' = "main_except"
                 /\ UNCHANGED << download_url, firstUrl, postsAtUrl >>
            ELSE /\ download_url' = r.value
                 /\ err' = err
                 /\ pc' = IF Truthy(r.value) THEN "export_return" ELSE "poll_check"
                 /\ IF Truthy(r.value) /\ firstUrl = None
                    THEN firstUrl' = r.value /\ postsAtUrl' = nPosts + 1
                    ELSE UNCHANGED << firstUrl, postsAtUrl >>
    /\ UNCHANGED << start_time, elapsed, nSleeps, sleepArgs, nProgress, fileVars,
                    envVars, jobVars, outVars >>

(***************************************************************************)
(* try_get_download_url, line 54: the POST never gets a response.  Without *)
(* a timeout requests.post does not return; with one it raises Timeout.    *)
(***************************************************************************)
PollRequestNoResponse ==
    /\ pc = "poll_request"
    /\ nPosts' = nPosts + 1
    /\ onlyReadyNoUrl' = FALSE
    /\ IF post_timeout = NoTimeout
       THEN /\ pc' = "post_blocked"
            /\ UNCHANGED << clock, err >>
       ELSE /\ clock' = clock + post_timeout
            /\ err' = Exc("Timeout", "none", NoBody, "none")
            /\ pc' = "main_except"
    /\ UNCHANGED << start_time, download_url, elapsed, nSleeps, sleepArgs,
                    nProgress, firstUrl, postsAtUrl, fileVars, envVars, jobVars,
                    outVars >>

\* variant: the deadline is reached at max_wait, not after it
PollCheckNonStrict ==
    /\ pc = "poll_check"
    /\ elapsed' = clock - start_time
    /\ IF elapsed' >= max_wait
       THEN /\ err' = Exc("TimeoutError", "Export timed out", NoBody, "none")
            /\ pc' = "main_except"
            /\ nProgress' = nProgress
       ELSE /\ nProgress' = nProgress + 1
            /\ pc' = "poll_sleep"
            /\ err' = err
    /\ UNCHANGED << clock, start_time, download_url, nPosts, nSleeps, sleepArgs,
                    firstUrl, postsAtUrl, onlyReadyNoUrl, fileVars, envVars,
                    jobVars, outVars >>

\* variant: the progress line is printed before the deadline is checked
PollCheckProgressFirst ==
    /\ pc = "poll_check"
    /\ elapsed' = clock - start_time
    /\ nProgress' = nProgress + 1
    /\ IF elapsed' > max_wait
       THEN /\ err' = Exc("TimeoutError", "Export timed out", NoBody, "none")
            /\ pc' = "main_except"
       ELSE /\ pc' = "poll_sleep"
            /\ err' = err
    /\ UNCHANGED << clock, start_time, download_url, nPosts, nSleeps, sleepArgs,
                    firstUrl, postsAtUrl, onlyReadyNoUrl, fileVars, envVars,
                    jobVars, outVars >>

(***************************************************************************)
(* export_avatar, lines 107-112: the deadline check and the progress line. *)
(***************************************************************************)
PollCheck ==
    /\ pc = "poll_check"
    /\ elapsed' = clock - start_time
    /\ IF elapsed' > max_wait
       THEN /\ err' = Exc("TimeoutError", "Export timed out", NoBody, "none")
            /\ pc' = "main_except"
            /\ nProgress' = nProgress
       ELSE /\ nProgress' = nProgress + 1
            /\ pc' = "poll_sleep"
            /\ err' = err
    /\ UNCHANGED << clock, start_time, download_url, nPosts, nSleeps, sleepArgs,
                    firstUrl, postsAtUrl, onlyReadyNoUrl, fileVars, envVars,
                    jobVars, outVars >>

(***************************************************************************)
(* export_avatar, line 113, and the loop test of line 101.                 *)
(***************************************************************************)
PollSleep ==
    /\ pc = "poll_sleep"
    /\ clock' = clock + poll_interval
    /\ nSleeps' = nSleeps + 1
    /\ sleepArgs' = sleepArgs \cup {poll_interval}
    /\ pc' = IF ~Truthy(download_url) THEN "poll_request" ELSE "export_return"
    /\ UNCHANGED << err, start_time, download_url, elapsed, nPosts, nProgress,
                    firstUrl, postsAtUrl, onlyReadyNoUrl, fileVars, envVars,
                    jobVars, outVars >>

(***************************************************************************)
(* export_avatar, line 115, and main, lines 168-172.                       *)
(***************************************************************************)
ExportReturn ==
    /\ pc = "export_return"
    /\ pc' = "download_open"
    /\ UNCHANGED << clock, err, pollVars, fileVars, envVars, jobVars, outVars >>

\* variant: the file is opened for appending
DownloadOpenAppend ==
    /\ pc = "download_open"
    /\ file' = OnDisk(file.content)
    /\ handleOpen' = TRUE
    /\ nOpens' = nOpens + 1
    /\ pc' = "download_get"
    /\ UNCHANGED << clock, err, pollVars, nGets, stream, payload, getStatus,
                    getUrl, envVars, jobVars, outVars >>

(***************************************************************************)
(* download_file, lines 126-129: open(output_file, "wb").                  *)
(***************************************************************************)
DownloadOpen ==
    /\ pc = "download_open"
    /\ file' = OnDisk(<< >>)
    /\ handleOpen' = TRUE
    /\ nOpens' = nOpens + 1
    /\ pc' = "download_get"
    /\ UNCHANGED << clock, err, pollVars, nGets, stream, payload, getStatus,
                    getUrl, envVars, jobVars, outVars >>

\* variant: the HTTP error is not wrapped
DownloadGetNoWrap ==
    /\ pc = "download_get"
    /\ nGets' = nGets + 1
    /\ getUrl' = download_url
    /\ \/ \E p \in Payloads :
            /\ getStatus' = "ok"
            /\ stream' = p
            /\ payload' = p
            /\ pc' = "download_stream"
            /\ UNCHANGED << err, handleOpen >>
       \/ /\ getStatus' = "http_error"
          /\ err' = Exc("HTTPError", "none", NoBody, "none")
          /\ handleOpen' = FALSE
          /\ pc' = "main_except"
          /\ UNCHANGED << stream, payload >>
       \/ /\ getStatus' = "conn_error"
          /\ err' = Exc("ConnectionError", "none", NoBody, "none")
          /\ handleOpen' = FALSE
          /\ pc' = "main_except"
          /\ UNCHANGED << stream, payload >>
    /\ UNCHANGED << clock, pollVars, file, nOpens, envVars, jobVars, outVars >>

(***************************************************************************)
(* download_file, lines 130-134: the GET and raise_for_status.  Leaving    *)
(* the with block on an exception closes the handle.                       *)
(***************************************************************************)
DownloadGet ==
    /\ pc = "download_get"
    /\ nGets' = nGets + 1
    /\ getUrl' = download_url
    /\ \/ \E p \in Payloads :
            /\ getStatus' = "ok"
            /\ stream' = p
            /\ payload' = p
            /\ pc' = "download_stream"
            /\ UNCHANGED << err, handleOpen >>
       \/ /\ getStatus' = "http_error"
          /\ err' = Exc("RuntimeError", "Failed to download file", NoBody,
                        "HTTPError")
          /\ handleOpen' = FALSE
          /\ pc' = "main_except"
          /\ UNCHANGED << stream, payload >>
       \/ /\ getStatus' = "conn_error"
          /\ err' = Exc("ConnectionError", "none", NoBody, "none")
          /\ handleOpen' = FALSE
          /\ pc' = "main_except"
          /\ UNCHANGED << stream, payload >>
    /\ UNCHANGED << clock, pollVars, file, nOpens, envVars, jobVars, outVars >>

(***************************************************************************)
(* download_file, line 131: the GET never gets a response.  With its       *)
(* timeout requests.get raises Timeout, which is no HTTPError; without one *)
(* it would not return.                                                    *)
(***************************************************************************)
DownloadGetNoResponse ==
    /\ pc = "download_get"
    /\ nGets' = nGets + 1
    /\ getUrl' = download_url
    /\ getStatus' = "no_response"
    /\ IF get_timeout = NoTimeout
       THEN /\ pc' = "get_blocked"
            /\ UNCHANGED << clock, err, handleOpen >>
       ELSE /\ clock' = clock + get_timeout
            /\ err' = Exc("Timeout", "none", NoBody, "none")
            /\ handleOpen' = FALSE
            /\ pc' = "main_except"
    /\ UNCHANGED << pollVars, file, nOpens, stream, payload, envVars, jobVars,
                    outVars >>

\* variant: each chunk replaces what was written before
DownloadWriteOverwrites ==
    /\ pc = "download_stream"
    /\ stream # << >>
    /\ file' = [file EXCEPT !.content = Head(stream)]
    /\ stream' = Tail(stream)
    /\ UNCHANGED << pc, clock, err, pollVars, handleOpen, nOpens, nGets, payload,
                    getStatus, getUrl, envVars, jobVars, outVars >>

(***************************************************************************)
(* download_file, lines 135-136: one chunk is written.                     *)
(***************************************************************************)
DownloadWrite ==
    /\ pc = "download_stream"
    /\ stream # << >>
    /\ file' = [file EXCEPT !.content = @ \o Head(stream)]
    /\ stream' = Tail(stream)
    /\ UNCHANGED << pc, clock, err, pollVars, handleOpen, nOpens, nGets, payload,
                    getStatus, getUrl,
                    envVars, jobVars, outVars >>

\* variant: the handle is not closed when streaming fails
DownloadStreamFailLeaks ==
    /\ pc = "download_stream"
    /\ stream # << >>
    /\ \E type \in {"ChunkedEncodingError", "OSError"} :
         err' = Exc(type, "none", NoBody, "none")
    /\ pc' = "main_except"
    /\ UNCHANGED << clock, pollVars, fileVars, envVars, jobVars, outVars >>

(***************************************************************************)
(* download_file, lines 135-136: the connection breaks while streaming, or *)
(* f.write fails.                                                          *)
(***************************************************************************)
DownloadStreamFail ==
    /\ pc = "download_stream"
    /\ stream # << >>
    /\ \E type \in {"ChunkedEncodingError", "OSError"} :
         err' = Exc(type, "none", NoBody, "none")
    /\ handleOpen' = FALSE
    /\ pc' = "main_except"
    /\ UNCHANGED << clock, pollVars, file, nOpens, nGets, stream, payload,
                    getStatus, getUrl,
                    envVars, jobVars, outVars >>

(***************************************************************************)
(* download_file, lines 135-138, and main, line 175: the stream has ended. *)
(***************************************************************************)
DownloadFinish ==
    /\ pc = "download_stream"
    /\ stream = << >>
    /\ handleOpen' = FALSE
    /\ success' = TRUE
    /\ exitCode' = 0
    /\ pc' = "exit"
    /\ UNCHANGED << clock, err, pollVars, file, nOpens, nGets, stream, payload,
                    getStatus, getUrl,
                    envVars, jobVars, stderr >>

\* variant: the handler prints the error and returns, without sys.exit(1)
MainExceptNoExit ==
    /\ pc = "main_except"
    /\ stderr' = Append(stderr, err)
    /\ exitCode' = 0
    /\ pc' = "exit"
    /\ UNCHANGED << clock, err, pollVars, fileVars, envVars, jobVars, success >>

\* variant: the handler removes the output file
MainExceptCleansUp ==
    /\ pc = "main_except"
    /\ stderr' = Append(stderr, err)
    /\ exitCode' = 1
    /\ pc' = "exit"
    /\ file' = NoFile
    /\ UNCHANGED << clock, err, pollVars, handleOpen, nOpens, nGets, stream,
                    payload, getStatus, getUrl, envVars, jobVars, success >>

(***************************************************************************)
(* main, lines 177-179: the top-level handler.                             *)
(***************************************************************************)
MainExcept ==
    /\ pc = "main_except"
    /\ stderr' = Append(stderr, err)
    /\ exitCode' = 1
    /\ pc' = "exit"
    /\ UNCHANGED << clock, err, pollVars, fileVars, envVars, jobVars, success >>

Next ==
    \/ JobCompletes
    \/ MainStart
    \/ PollRequest
    \/ PollRequestNoResponse
    \/ PollCheck
    \/ PollSleep
    \/ ExportReturn
    \/ DownloadOpen
    \/ DownloadGet
    \/ DownloadGetNoResponse
    \/ DownloadWrite
    \/ DownloadStreamFail
    \/ DownloadFinish
    \/ MainExcept

Spec == Init /\ [][Next]_vars

\* the single thread always takes its next step; the job need not finish
ProgramStep ==
    \/ MainStart
    \/ PollRequest
    \/ PollRequestNoResponse
    \/ PollCheck
    \/ PollSleep
    \/ ExportReturn
    \/ DownloadOpen
    \/ DownloadGet
    \/ DownloadGetNoResponse
    \/ DownloadWrite
    \/ DownloadStreamFail
    \/ DownloadFinish
    \/ MainExcept

FairSpec == Spec /\ WF_vars(ProgramStep)

(***************************************************************************)
(* Where the run is.                                                       *)
(***************************************************************************)
ExportCalled == pc # "main" /\ Truthy(token)
ExportRunning == pc \in Polling \cup {"post_blocked"}
ExportReturned ==
    pc \in {"export_return", "download_open", "download_get", "download_stream"}
        \/ nOpens > 0
ExportRaised == ExportCalled /\ ~ExportRunning /\ ~ExportReturned
TimedOut == ExportRaised /\ err.type = "TimeoutError"
RequestFailed == ExportRaised /\ err.type # "TimeoutError"

RECURSIVE Concat(_)
Concat(chunks) ==
    IF chunks = << >> THEN << >> ELSE Head(chunks) \o Concat(Tail(chunks))

\* C1: with MESHCAPADE_API_TOKEN unset or empty the run ends with exit code
\* 1, and no export POST, no download GET and no open of the output file
\* happens before it does.
C1_NoTokenNoEffects ==
    ~Truthy(token)
        => /\ nPosts = 0 /\ nGets = 0 /\ nOpens = 0
           /\ ~handleOpen /\ file = oldFile
           /\ pc \in {"main", "main_except", "exit"}
           /\ pc = "exit" => (exitCode = 1 /\ ~success)

C1_Witness == token = "" /\ pc = "exit" /\ exitCode = 1 /\ Len(stderr) = 1

\* C2 as stated: for every N, when the requester answers pending N times
\* and then a ready URL, export_avatar sleeps N times for 5 seconds, sends
\* N+1 requests and returns the ready URL.
C2_PendingThenReady ==
    (ExportCalled /\ ~ExportRunning /\ jobReady /\ ~RequestFailed)
        => /\ ExportReturned
           /\ nSleeps = readyAfter
           /\ sleepArgs \subseteq {5}
           /\ nPosts = readyAfter + 1
           /\ download_url = jobUrl

\* C2 as amended: the same, for the runs in which no deadline check found
\* more than 600 seconds elapsed.
C2_PendingThenReadyInTime ==
    (ExportCalled /\ ~ExportRunning /\ jobReady /\ ~RequestFailed
     /\ elapsed <= 600)
        => /\ ExportReturned
           /\ nSleeps = readyAfter
           /\ sleepArgs \subseteq {5}
           /\ nPosts = readyAfter + 1
           /\ download_url = jobUrl

C2_Witness ==
    /\ ExportReturned /\ readyAfter = 3 /\ nSleeps = 3 /\ nPosts = 4
    /\ download_url = jobUrl /\ pc = "export_return"

\* C3: when no request ever returns a URL (and none fails or stays without
\* an answer), export_avatar ends, with the timeout error, raised at a check
\* that found more than 600 seconds elapsed, before that iteration's
\* progress message and sleep.
C3_NeverReadyTimesOut ==
    /\ []((ExportCalled /\ ~ExportRunning /\ firstUrl = None /\ ~RequestFailed)
            => /\ TimedOut
               /\ elapsed > 600
               /\ nProgress = nPosts - 1
               /\ nSleeps = nPosts - 1)
    /\ <>(pc = "post_blocked" \/ (pc # "main" /\ ~ExportRunning))

C3_Witness ==
    TimedOut /\ firstUrl = None /\ pc = "exit" /\ elapsed > 600 /\ ~jobReady

\* C4: an error raised by try_get_download_url ends export_avatar at once
\* with that error: no export request and no sleep follows it.
C4_RequestErrorEndsPolling ==
    [][/\ (err = NoErr /\ err' # NoErr /\ nPosts' = nPosts + 1)
            => pc' = "main_except"
       /\ err # NoErr
            => /\ err' = err
               /\ nPosts' = nPosts
               /\ nSleeps' = nSleeps
               /\ pc' \in {"main_except", "exit"}]_vars

C4_Witness ==
    /\ RequestFailed /\ pc = "exit" /\ nPosts = 2 /\ nSleeps = 1
    /\ err.type = "RuntimeError" /\ stderr = << err >>

\* C5: when export_avatar returns, its value is a non-empty URL, the first
\* one a request of this run returned, and no request was sent after the
\* request that returned it.
C5_ReturnsFirstUrl ==
    ExportReturned
        => /\ Truthy(download_url)
           /\ download_url = firstUrl
           /\ nPosts = postsAtUrl

C5_Witness == ExportReturned /\ nPosts = 3 /\ download_url \in URLs /\ pc = "exit"

\* C10: after download_file has succeeded the output file holds exactly the
\* chunks of the response, concatenated in order, and nothing of what was
\* at that path before.
C10_FileIsPayload ==
    success => (file.exists /\ file.content = Concat(payload))

C10_Witness ==
    /\ success /\ oldFile.exists /\ Len(payload) = 2
    /\ payload[1] # payload[2] /\ file.content = <<2, 3, 1>>

\* C11: when the download GET gets a non-success HTTP status, download_file
\* raises the download error that wraps the HTTP error, no chunk is written
\* and nothing is cleaned up: the (empty) output file stays on disk.
C11_HttpErrorWrapped ==
    getStatus = "http_error"
        => /\ err = Exc("RuntimeError", "Failed to download file", NoBody,
                        "HTTPError")
           /\ pc \in {"main_except", "exit"}
           /\ payload = << >>
           /\ file = OnDisk(<< >>)
           /\ ~success

C11_Witness ==
    /\ getStatus = "http_error" /\ pc = "exit" /\ oldFile.exists
    /\ file.exists /\ stderr = << err >>

\* C12: a failure at any stage is written once to the error stream and ends
\* the process with exit code 1; after it no request is sent, no file is
\* opened or written and the success line is not printed; download_file
\* is called only with the URL export_avatar returned.
C12_FailureReportedOnce ==
    [][/\ err # NoErr
            => /\ err' = err
               /\ nPosts' = nPosts /\ nGets' = nGets /\ nOpens' = nOpens
               /\ file' = file
               /\ ~success'
       /\ nOpens' > nOpens
            => (err = NoErr /\ Truthy(download_url) /\ download_url = firstUrl)
       /\ pc' = "exit"
            => IF err' # NoErr
               THEN exitCode' = 1 /\ stderr' = << err' >> /\ ~success'
               ELSE exitCode' = 0 /\ stderr' = << >> /\ success']_vars

C12_Witness ==
    /\ pc = "exit" /\ exitCode = 1 /\ stderr = << err >> /\ ~success
    /\ err.type = "ChunkedEncodingError" /\ nOpens = 1 /\ file.content = <<1>>

\* C13: in a run with the token set, in which the requester answers pending
\* some times and then READY with a URL, and the download of that URL
\* delivers all its chunks, the output file holds exactly the bytes served
\* and the process ends with exit code 0.
C13_FullRunSucceeds ==
    (/\ pc = "exit" /\ Truthy(token) /\ firstUrl # None
     /\ getStatus = "ok" /\ stream = << >>)
        => /\ exitCode = 0 /\ success /\ err = NoErr
           /\ getUrl = jobUrl /\ nGets = 1 /\ nOpens = 1
           /\ file = OnDisk(Concat(payload))

C13_Witness ==
    /\ pc = "exit" /\ exitCode = 0 /\ readyAfter = 1 /\ nPosts = 2
    /\ payload = << <<2, 3>>, <<1>> >> /\ file.content = <<2, 3, 1>>

\* C14: an answer with state READY and no usable URL is returned as None
\* (as "" when url.path is the empty string), without an error, and export_avatar goes on as after a pending answer:
\* deadline check, sleep, next request; a run that gets only such answers
\* ends with the timeout error.
C14_ReadyWithoutUrlIsPending ==
    /\ [][(nPosts' = nPosts + 1 /\ onlyReadyNoUrl')
            => /\ pc' = "poll_check"
               /\ err' = NoErr
               /\ download_url' \in {None, ""}]_vars
    /\ []((ExportCalled /\ ~ExportRunning /\ onlyReadyNoUrl /\ nPosts > 0)
            => /\ TimedOut
               /\ elapsed > 600
               /\ nSleeps = nPosts - 1
               /\ ~success)
    /\ <>(~Truthy(token) \/ ~onlyReadyNoUrl \/ TimedOut)

C14_Witness ==
    /\ TimedOut /\ onlyReadyNoUrl /\ pc = "exit" /\ nPosts > 100
    /\ stderr = << err >>

\* C15: the program is never inside a network call that has no timeout and
\* gets no answer: the export POST and the download GET are both bounded.
C15_NoCallBlocks == pc \notin {"post_blocked", "get_blocked"}

\* C16: download_file leaves no handle on the output file open, however it
\* ends: success, HTTP status failure, transport failure of the GET, failure
\* while streaming or writing.
C16_HandleClosed ==
    /\ handleOpen => pc \in {"download_get", "download_stream"}
    /\ pc \in {"download_get", "download_stream"} => handleOpen

C16_Witness ==
    /\ pc = "main_except" /\ err.type = "OSError" /\ nOpens = 1
    /\ file.content = <<2, 3>> /\ ~handleOpen

\* C17: the deadline is checked only after a pending answer; a request that
\* returns a non-empty URL makes export_avatar return it, also when more
\* than 600 seconds have elapsed since the loop started.
C17_UrlAlwaysSucceeds ==
    /\ [][/\ (nPosts' = nPosts + 1 /\ firstUrl' # None)
               => /\ pc' = "export_return"
                  /\ err' = NoErr
                  /\ elapsed' = elapsed
          /\ elapsed' # elapsed
               => (pc = "poll_check" /\ ~Truthy(download_url))]_vars
    /\ [](TimedOut => firstUrl = None)

C17_Witness ==
    /\ pc = "export_return" /\ clock - start_time > 600
    /\ download_url = jobUrl /\ err = NoErr

\* C18: the comparison with the deadline is strict: a pending answer at
\* exactly 600 elapsed seconds is followed by a sleep and a request; when
\* requests take no time, the run without a ready answer sends 122 requests
\* and sleeps 121 times, and the timeout is raised at 605 elapsed seconds.
C18_StrictDeadline ==
    /\ [][(pc = "poll_check" /\ pc' # pc /\ clock - start_time = 600)
            => (pc' = "poll_sleep" /\ err' = NoErr)]_vars
    /\ []((TimedOut /\ latency = 0)
            => (nPosts = 122 /\ nSleeps = 121 /\ elapsed = 605))

C18_Witness ==
    /\ TimedOut /\ latency = 0 /\ nPosts = 122 /\ nSleeps = 121
    /\ elapsed = 605 /\ sleepArgs = {5}

\* C19: as long as no request has returned a URL the output file is as it
\* was before the run, and is not opened: so it is after a missing token, an
\* export error and the polling timeout.
C19_NoUrlNoFileChange ==
    firstUrl = None => (file = oldFile /\ nOpens = 0 /\ ~handleOpen)

C19_Witness ==
    /\ pc = "exit" /\ RequestFailed /\ err.type = "ValueError"
    /\ oldFile.exists /\ file = oldFile

\* C20: the output file is opened and truncated before the GET is sent, so
\* after a GET that failed (HTTP status, transport failure) the file is
\* there, empty, whatever was at that path before.
C20_GetFailureLeavesEmptyFile ==
    /\ nGets > 0 => nOpens = 1
    /\ getStatus \in {"http_error", "conn_error", "no_response"}
            => file = OnDisk(<< >>)

C20_Witness ==
    /\ getStatus = "conn_error" /\ pc = "exit" /\ oldFile.exists
    /\ file = OnDisk(<< >>)

(***************************************************************************)
(* try_get_download_url alone, applied to every response of Responses.     *)
(***************************************************************************)
InitRequester ==
    /\ pc = "requester"
    /\ response \in Responses
    /\ result = NoResult
    /\ token = "secret"
    /\ clock = 0
    /\ latency = 0
    /\ jobReady = FALSE
    /\ jobUrl = None
    /\ readyAfter = 0
    /\ start_time = 0
    /\ download_url = None
    /\ elapsed = 0
    /\ err = NoErr
    /\ nPosts = 0
    /\ nSleeps = 0
    /\ sleepArgs = {}
    /\ nProgress = 0
    /\ firstUrl = None
    /\ postsAtUrl = 0
    /\ onlyReadyNoUrl = TRUE
    /\ oldFile = NoFile
    /\ file = NoFile
    /\ handleOpen = FALSE
    /\ nOpens = 0
    /\ nGets = 0
    /\ stream = << >>
    /\ payload = << >>
    /\ getStatus = "none"
    /\ getUrl = None
    /\ stderr = << >>
    /\ success = FALSE
    /\ exitCode = NoExit

RequesterCall ==
    /\ pc = "requester"
    /\ result' = try_get_download_url(response)
    /\ nPosts' = nPosts + 1
    /\ pc' = "requester_done"
    /\ UNCHANGED << token, clock, latency, jobVars, start_time, download_url,
                    elapsed, err, nSleeps, sleepArgs, nProgress, firstUrl,
                    postsAtUrl, onlyReadyNoUrl, fileVars, oldFile, outVars, response >>

NextRequester == RequesterCall

SpecRequester == InitRequester /\ [][NextRequester]_vars

(***************************************************************************)
(* Properties of try_get_download_url, under SpecRequester.                *)
(***************************************************************************)
Answered == pc = "requester_done"
JsonObject == response.status = "ok"
HasAttributes == JsonObject /\ response.data = "dict" /\ response.attributes = "dict"
PopulatedPath == response.url = "dict" /\ Truthy(response.path)

\* C6: for a successful response whose attributes have state READY and a
\* populated url.path, try_get_download_url returns exactly that url.path.
C6_ReadyReturnsPath ==
    (Answered /\ HasAttributes /\ response.state = "READY" /\ PopulatedPath)
        => (result.kind = "return" /\ result.value = response.path)

C6_Witness ==
    /\ Answered /\ HasAttributes /\ response.state = "READY"
    /\ response.url = "dict" /\ response.path = "https://example/y.glb"
    /\ result.kind = "return"

\* C7: for a successful response whose attributes have state ERROR,
\* try_get_download_url raises the job-failure error, which carries the
\* response body, with or without a url.path; it returns nothing.
C7_ErrorStateRaises ==
    (Answered /\ HasAttributes /\ response.state = "ERROR")
        => /\ result.kind = "raise"
           /\ result.error.type = "RuntimeError"
           /\ result.error.msg = "Export finished with ERROR state"
           /\ result.error.body = response

C7_Witness ==
    /\ Answered /\ HasAttributes /\ response.state = "ERROR" /\ PopulatedPath
    /\ result.kind = "raise"

\* C8: for a successful response with non-empty attributes whose state is
\* neither READY nor ERROR (a missing state included), try_get_download_url
\* returns None and raises nothing, even when a url.path is present.
C8_OtherStateIsPending ==
    (/\ Answered /\ HasAttributes /\ ~EmptyAttributes(response)
     /\ response.state \notin {"READY", "ERROR"})
        => result = Return(None)

C8_Witness ==
    /\ Answered /\ HasAttributes /\ response.state = Absent /\ PopulatedPath
    /\ result.kind = "return"

\* C9: for a successful response whose data.attributes is absent or empty
\* (a body without a data member included), try_get_download_url raises the
\* malformed-response error; the response is never pending or ready.
AttributesMissing ==
    /\ JsonObject
    /\ \/ response.data = Absent
       \/ response.data = "dict" /\ response.attributes = Absent
       \/ response.data = "dict" /\ EmptyAttributes(response)

====
